---- MODULE Spec2Model ----
(***************************************************************************)
(* bedrock-oauth2-verifier: the issuer configuration cache of discovery.js *)
(* (discoverIssuer, _getUncachedIssuerConfig, _resetIssuerConfigCache).    *)
(*                                                                         *)
(* One issuerConfigUrl is followed.  A promise is named by the number of   *)
(* the _getUncachedIssuerConfig invocation that returned it, and so is the *)
(* record it resolves to: promise identity (===) is equality of numbers.   *)
(* Time is a discrete clock; MaxAge is the cache's maxAge in clock units.  *)
(* JavaScript runs callbacks to completion: continuations of settled       *)
(* promises (microtasks) run before any timer or network callback, and     *)
(* the clock does not advance while a continuation is ready.  A network    *)
(* response arrives at a later clock value than its request.               *)
(***************************************************************************)
EXTENDS Integers, FiniteSets, Sequences, TLC

\* bounds of the model
MaxCalls == 2
MaxFetches == 3
MaxTime == 7

\* cache options in clock units (config.js `cache`, scaled)
MaxAge == 2
MaxEntries == 2

Calls == 1..MaxCalls
Fetches == 1..MaxFetches

VARIABLES
  now,      \* Date.now()
  entry,    \* ISSUER_CONFIG_CACHE entry of the key: val (promise, 0 = none),
            \* at (time of the last refreshing access), others (number of
            \* other keys used since)
  stage,    \* per invocation of _getUncachedIssuerConfig: where it is
  kind,     \* who started it: "memo", "rot" (rotation) or "forced"
  cur,      \* rotation only: `current`, the promise the rotation replaces
  seen,     \* `current` as peeked by the record's timer callback
  created,  \* record creation time (expires = created + 2 * maxAge)
  next,     \* the record's `next` promise and its timer
  nextId,   \* number of the next invocation
  call,     \* the discoverIssuer calls
  kept,     \* history: the record last returned from the cache, 0 after a
            \* cache reset or an eviction
  used,     \* history: the records a call found in the cache no later than
            \* maxAge after they were built (kept until their rotation ends)
  rotNew,   \* history: g, the rotation fetch that succeeded since the last
            \* discoverIssuer call began (0 after a cache reset or an
            \* eviction), intact: the entry it set out to replace was still
            \* the cache entry when it succeeded, and inUse: the record it
            \* rotated was in used
  preReset, \* history: the invocations started before the last
            \* _resetIssuerConfigCache
  bind,     \* one run of _getUncachedIssuerConfig, of its issuer/URL
            \* binding rule or of all its rules: its inputs, where it is
            \* and its outcome
  chk       \* one call of checkTargetScopedAccessToken or checkAccessToken:
            \* its arguments, where it is and its outcome

cacheVars == <<now, entry, stage, kind, cur, seen, created, next, nextId, call,
               kept, used, rotNew, preReset>>
vars == <<now, entry, stage, kind, cur, seen, created, next, nextId, call,
          kept, used, rotNew, preReset, bind, chk>>

----------------------------------------------------------------------------
\* LruCache (lru-memoize over lru-cache, updateAgeOnGet: true)

NoEntry == [val |-> 0, at |-> 0, others |-> 0]
NoRotation == [g |-> 0, intact |-> FALSE, inUse |-> FALSE]

\* an entry not read through get for longer than maxAge is stale: no read
\* returns it
IsStale(e, t) == IF e.val = 0 THEN FALSE ELSE t - e.at > MaxAge

\* the cache at time t: a stale entry is gone
Purge(e, t) == IF IsStale(e, t) THEN NoEntry ELSE e

\* cache.peek(key): the stored promise, recency and age untouched
PeekVal(e) == IF IsStale(e, now) THEN 0 ELSE e.val

\* cache.get(key) inside memoize: refreshes age and recency of a hit
GetCache(e) == IF PeekVal(e) = 0 THEN NoEntry
               ELSE [e EXCEPT !.at = now, !.others = 0]

\* cache.set(key, promise)
SetCache(f) == [val |-> f, at |-> now, others |-> 0]

\* ISSUER_CONFIG_CACHE.delete(key)
DeleteCache(e) == NoEntry

----------------------------------------------------------------------------
\* promises of _getUncachedIssuerConfig

StageOf(f) == IF f = 0 THEN "none" ELSE stage[f]
Pending(f) == StageOf(f) \in {"meta0", "meta", "jwks"}
Resolved(f) == StageOf(f) = "ok"
Rejected(f) == StageOf(f) = "err"
Settled(f) == StageOf(f) \in {"ok", "err"}

\* faulty variant: a record that expires at its soft deadline
ExpiresAtMaxAge(f) == created[f] + MaxAge

\* record.expires
Expires(f) == created[f] + 2 * MaxAge

\* a discoverIssuer call: pc (where it is), waitOn (the fetch it awaits),
\* prom (`promise`), res and rec (how it returned, and which fetch's record
\* or rejection), and what held when it began: hit (memoize found the key),
\* first (the memoized fetch in flight then, or the one it started), again
\* (the record in kept, if still before its soft deadline), fresh (that
\* record was the cache entry), rot (the rotation in rotNew), rotHit (that
\* rotation found its entry intact, no more than maxAge ago), late (memoize
\* found an expired record whose rotation had failed)
IdleCall == [pc |-> "idle", waitOn |-> 0, prom |-> 0, res |-> "none", rec |-> 0,
             hit |-> FALSE, first |-> 0, again |-> 0, fresh |-> FALSE,
             rot |-> 0, rotHit |-> FALSE, late |-> FALSE]

\* a call that returned: res is how ("cached": the cached record; "forced":
\* the record of its forced fetch; "error": the rejection of fetch rec;
\* "typeerror": the TypeError of reading `expires` of undefined)
Done(c, res, rec) == [IdleCall EXCEPT !.pc = "done", !.res = res, !.rec = rec]

\* a continuation of some discoverIssuer call can run now
CallReady(c) ==
  CASE call[c].pc \in {"memo", "forced"} -> Settled(call[c].waitOn)
    [] call[c].pc = "peeked" -> IF call[c].prom = 0 THEN TRUE
                                ELSE Settled(call[c].prom)
    [] OTHER -> FALSE
MicrotaskReady == \E c \in Calls : CallReady(c)

TimerDue(f) == next[f] = "armed" /\ now >= created[f] + MaxAge

\* no binding run and no token check is followed
NoBind == [pc |-> "none"]
NoCheck == [pc |-> "none"]

InitCache ==
  /\ now = 0
  /\ entry = NoEntry
  /\ stage = [f \in Fetches |-> "none"]
  /\ kind = [f \in Fetches |-> "none"]
  /\ cur = [f \in Fetches |-> 0]
  /\ seen = [f \in Fetches |-> 0]
  /\ created = [f \in Fetches |-> 0]
  /\ next = [f \in Fetches |-> "none"]
  /\ nextId = 1
  /\ call = [c \in Calls |-> IdleCall]
  /\ kept = 0
  /\ used = {}
  /\ rotNew = NoRotation
  /\ preReset = {}

Init ==
  /\ InitCache
  /\ bind = NoBind
  /\ chk = NoCheck

\* _getUncachedIssuerConfig({issuerConfigUrl}) up to its first await: the
\* metadata GET is sent
StartFetch(f, k, current) ==
  /\ f <= MaxFetches
  /\ stage' = [stage EXCEPT ![f] = "meta0"]
  /\ kind' = [kind EXCEPT ![f] = k]
  /\ cur' = [cur EXCEPT ![f] = current]
  /\ nextId' = f + 1

\* faulty variants of the expiry test, kept to show what the properties
\* below owe to it: one that never finds a record expired, and one that
\* takes the soft deadline (creation + maxAge) for the hard one
NeverExpired(r) == FALSE
RecordExpiredSoft(r) == created[r] + MaxAge <= now

\* `record.expires < now`
RecordExpired(r) == Expires(r) < now

\* faulty variant: the expired record's key is deleted without the test
StillCachedAnyway(p) == TRUE

\* `ISSUER_CONFIG_CACHE.cache.peek(key) === promise`
StillCached(p) == PeekVal(entry) = p

\* faulty variant of the timer's test: any entry of the key will do
RotationStartsIfPresent(f) == PeekVal(entry) # 0

\* the timer's test: the key is still in the cache, with the same record
RotationStarts(f) == PeekVal(entry) = f

\* faulty variants of the rotation's test: a rotation that always stores
\* its promise, and one that never does
SwapAlways(g) == TRUE
SwapNever(g) == FALSE

\* the rotation's test before cache.set: `current === ...cache.peek(url)`
SwapAllowed(g) == PeekVal(entry) = cur[g]

\* faulty variant (the behaviour before 2.1.1): the re-reads go through
\* cache.get and refresh the entry
ReReadWithGet(e) == GetCache(e)

\* the cache after `ISSUER_CONFIG_CACHE.cache.peek(key)`: as it was
ReRead(e) == e

\* faulty variant: a memoize that takes a rejected entry for a miss
MemoizeHitUnlessRejected == PeekVal(entry) # 0 /\ ~Rejected(PeekVal(entry))

\* memoize: a hit returns the stored promise, a miss stores fn()'s promise
MemoizeHit == PeekVal(entry) # 0

\* the memoized fetches in flight
PendingMemo == {f \in Fetches : kind[f] = "memo" /\ Pending(f)}
Lowest(S) == CHOOSE x \in S : \A y \in S : x <= y

\* a call that begins and awaits fetch f
Began(f) ==
  [IdleCall EXCEPT
     !.pc = "memo",
     !.waitOn = f,
     !.hit = PeekVal(entry) # 0,
     !.first = IF PendingMemo # {} THEN Lowest(PendingMemo)
               ELSE IF PeekVal(entry) = 0 THEN f ELSE 0,
     !.again = IF kept = 0 THEN 0
               ELSE IF now <= created[kept] + MaxAge THEN kept ELSE 0,
     !.fresh = IF kept = 0 THEN FALSE ELSE PeekVal(entry) = kept,
     !.rot = IF rotNew.inUse THEN rotNew.g ELSE 0,
     !.rotHit = IF rotNew.g = 0 THEN FALSE
                ELSE rotNew.intact /\ now - created[rotNew.g] <= MaxAge,
     !.late = IF ~Resolved(PeekVal(entry)) THEN FALSE
              ELSE /\ Expires(PeekVal(entry)) < now
                   /\ next[PeekVal(entry)] = "error"]

\* a cache reset or an eviction ends what the running calls could rely on
Disturbed(cl) == [cl EXCEPT !.again = 0, !.fresh = FALSE, !.rot = 0,
                            !.rotHit = FALSE, !.late = FALSE]

\* the fields of the record _getUncachedIssuerConfig builds:
\* `{issuer, jwks, config, next: null, expires}`
RecordKeys == {"issuer", "jwks", "config", "next", "expires"}

\* the keys of the object a call returned: the cached path destructures the
\* record into `{issuer, jwks, config}`; the expired path returns what the
\* forced _getUncachedIssuerConfig resolves to, the record itself
ResultKeys(res) ==
  CASE res = "cached" -> {"issuer", "jwks", "config"}
    [] res = "forced" -> RecordKeys
    [] OTHER -> {}

\* a call that is not running; the lowest free one is taken (the calls are
\* interchangeable)
Free(c) == call[c].pc \in {"idle", "done"}

\* discoverIssuer up to `await ISSUER_CONFIG_CACHE.memoize({key, fn})`
Discover(c) ==
  /\ Free(c)
  /\ \A d \in Calls : d < c => ~Free(d)
  /\ IF MemoizeHit
       THEN /\ entry' = GetCache(entry)
            /\ call' = [call EXCEPT ![c] = Began(PeekVal(entry))]
            /\ UNCHANGED <<stage, kind, cur, nextId>>
       ELSE /\ StartFetch(nextId, "memo", 0)
            /\ entry' = SetCache(nextId)
            /\ call' = [call EXCEPT ![c] = Began(nextId)]
  /\ used' = IF Resolved(PeekVal(entry))
              THEN IF now <= created[PeekVal(entry)] + MaxAge
                     THEN used \cup {PeekVal(entry)} ELSE used
              ELSE used
  /\ rotNew' = NoRotation
  /\ UNCHANGED <<now, seen, created, next, kept>>
  /\ UNCHANGED <<bind, chk, preReset>>

\* faulty variant: the rejection of the memoized fetch is swallowed
MemoizeSwallows(c) == FALSE

\* the memoize await throws when the memoized fetch was rejected
MemoizeThrows(c) == Rejected(call[c].waitOn)

\* discoverIssuer after the memoize await: `promise = ...cache.peek(key)`
AfterMemoize(c) ==
  /\ call[c].pc = "memo"
  /\ Settled(call[c].waitOn)
  /\ IF MemoizeThrows(c)
       THEN call' = [call EXCEPT ![c] = Done(c, "error", call[c].waitOn)]
       ELSE call' = [call EXCEPT ![c].pc = "peeked",
                                 ![c].prom = PeekVal(entry)]
  /\ entry' = IF MemoizeThrows(c) THEN entry ELSE ReRead(entry)
  /\ UNCHANGED <<now, stage, kind, cur, seen, created, next, nextId,
                 kept, used, rotNew>>
  /\ UNCHANGED <<bind, chk, preReset>>

\* faulty variant: the retry of an expired record goes through the cache
ForcedMemoized(e, f) == SetCache(f)

\* `return _getUncachedIssuerConfig({issuerConfigUrl})`: the promise f of
\* the forced fetch is handed to the caller and the cache e is not written
ForcedUncached(e, f) == e

\* discoverIssuer after `record = await promise`
AfterPromise(c) ==
  LET p == call[c].prom IN
  /\ call[c].pc = "peeked"
  /\ CallReady(c)
  /\ IF p = 0
       THEN \* record is undefined: `record.expires` throws a TypeError
            /\ call' = [call EXCEPT ![c] = Done(c, "typeerror", 0)]
            /\ UNCHANGED <<entry, stage, kind, cur, nextId>>
       ELSE IF Rejected(p)
       THEN /\ call' = [call EXCEPT ![c] = Done(c, "error", p)]
            /\ UNCHANGED <<entry, stage, kind, cur, nextId>>
       ELSE IF RecordExpired(p)
       THEN /\ entry' = ForcedUncached(IF StillCached(p)
                                          THEN DeleteCache(entry)
                                          ELSE entry, nextId)
            /\ StartFetch(nextId, "forced", 0)
            /\ call' = [call EXCEPT ![c].pc = "forced", ![c].waitOn = nextId]
       ELSE /\ call' = [call EXCEPT ![c] = Done(c, "cached", p)]
            /\ UNCHANGED <<entry, stage, kind, cur, nextId>>
  /\ kept' = IF call'[c].res = "cached" /\ entry.val = p THEN p ELSE kept
  /\ UNCHANGED <<now, seen, created, next, used, rotNew>>
  /\ UNCHANGED <<bind, chk, preReset>>

\* discoverIssuer returning the forced `_getUncachedIssuerConfig(...)`
AfterForced(c) ==
  /\ call[c].pc = "forced"
  /\ Settled(call[c].waitOn)
  /\ call' = [call EXCEPT ![c] =
       Done(c, IF Rejected(call[c].waitOn) THEN "error" ELSE "forced",
            call[c].waitOn)]
  /\ UNCHANGED <<now, entry, stage, kind, cur, seen, created, next, nextId,
                 kept, used, rotNew>>
  /\ UNCHANGED <<bind, chk, preReset>>

\* faulty variant (the behaviour before 1.0.2): `next` is rejected with the
\* rotation's error
NextRejects == "rejected"

\* `resolve(promise.catch(e => e))`: a failed rotation resolves `next` to
\* the error
NextAfterFailure == "error"

\* timers whose `current.then(...)` waited for promise x give up once x
\* settles (another record, or a rejection): resolve(null)
WakeTimers(nx, x) ==
  [f \in Fetches |-> IF nx[f] = "waiting" /\ seen[f] = x THEN "null" ELSE nx[f]]

\* the metadata GET answers; ok says whether the response passes the checks
MetaResponse(f, ok) ==
  /\ stage[f] = "meta"
  /\ ~MicrotaskReady
  /\ IF ok
       THEN /\ stage' = [stage EXCEPT ![f] = "jwks"]
            /\ UNCHANGED next
       ELSE /\ stage' = [stage EXCEPT ![f] = "err"]
            /\ next' = WakeTimers(IF kind[f] = "rot"
                                    THEN [next EXCEPT ![cur[f]] = NextAfterFailure]
                                    ELSE next, f)
  /\ used' = IF ok THEN used ELSE used \ {cur[f]}
  /\ UNCHANGED <<now, entry, kind, cur, seen, created, nextId, call, kept,
                 rotNew>>
  /\ UNCHANGED <<bind, chk, preReset>>

\* the key-set GET answers; on success the record is built, its timer is
\* armed and, for a rotation, the cache entry is swapped if still current
JwksResponse(f, ok) ==
  /\ stage[f] = "jwks"
  /\ ~MicrotaskReady
  /\ IF ok
       THEN /\ stage' = [stage EXCEPT ![f] = "ok"]
            /\ created' = [created EXCEPT ![f] = now]
            /\ next' = WakeTimers(IF kind[f] = "rot"
                          THEN [next EXCEPT ![f] = "armed", ![cur[f]] = "record"]
                          ELSE [next EXCEPT ![f] = "armed"], f)
            /\ entry' = IF kind[f] = "rot"
                          THEN IF SwapAllowed(f) THEN SetCache(f) ELSE entry
                          ELSE entry
       ELSE /\ stage' = [stage EXCEPT ![f] = "err"]
            /\ next' = WakeTimers(IF kind[f] = "rot"
                                    THEN [next EXCEPT ![cur[f]] = NextAfterFailure]
                                    ELSE next, f)
            /\ UNCHANGED <<created, entry>>
  /\ rotNew' = IF ok THEN (IF kind[f] = "rot"
                              THEN [g |-> f, intact |-> PeekVal(entry) = cur[f],
                                    inUse |-> cur[f] \in used]
                              ELSE rotNew)
                ELSE rotNew
  /\ used' = used \ {cur[f]}
  /\ UNCHANGED <<now, kind, cur, seen, nextId, call, kept>>
  /\ UNCHANGED <<bind, chk, preReset>>

\* the record's setTimeout callback, maxAge after the record was built
TimerFire(f) ==
  /\ TimerDue(f)
  /\ ~MicrotaskReady
  /\ seen' = [seen EXCEPT ![f] = PeekVal(entry)]
  /\ IF RotationStarts(f)
       THEN /\ StartFetch(nextId, "rot", PeekVal(entry))
            /\ next' = [next EXCEPT ![f] = "rotating"]
       ELSE /\ next' = [next EXCEPT ![f] =
                 IF Pending(PeekVal(entry))
                   THEN "waiting" ELSE "null"]
            /\ UNCHANGED <<stage, kind, cur, nextId>>
  /\ used' = IF RotationStarts(f) THEN used ELSE used \ {f}
  /\ entry' = ReRead(entry)
  /\ UNCHANGED <<now, created, call, kept, rotNew>>
  /\ UNCHANGED <<bind, chk, preReset>>

\* the invocations of _getUncachedIssuerConfig started so far
Started == {f \in Fetches : kind[f] # "none"}

\* _resetIssuerConfigCache(): a new, empty LruCache
ResetCache ==
  /\ IF entry = NoEntry THEN preReset # Started ELSE TRUE
  /\ entry' = NoEntry
  /\ call' = [c \in Calls |-> Disturbed(call[c])]
  /\ kept' = 0
  /\ rotNew' = NoRotation
  /\ preReset' = Started
  /\ UNCHANGED <<now, stage, kind, cur, seen, created, next, nextId, used>>
  /\ UNCHANGED <<bind, chk>>

\* discoverIssuer for another URL stores a new key: the least recently used
\* entry is evicted once maxSize other keys are more recent than it
OtherKey ==
  /\ entry.val # 0
  /\ IF entry.others + 1 >= MaxEntries
       THEN /\ entry' = NoEntry
            /\ call' = [c \in Calls |-> Disturbed(call[c])]
            /\ kept' = 0
            /\ rotNew' = NoRotation
       ELSE /\ entry' = [entry EXCEPT !.others = entry.others + 1]
            /\ UNCHANGED <<call, kept, rotNew>>
  /\ UNCHANGED <<now, stage, kind, cur, seen, created, next, nextId, used>>
  /\ UNCHANGED <<bind, chk, preReset>>

\* the clock advances when nothing is ready to run
Tick ==
  /\ now < MaxTime
  /\ ~MicrotaskReady
  /\ \A f \in Fetches : ~TimerDue(f)
  /\ now' = now + 1
  /\ entry' = Purge(entry, now + 1)
  /\ stage' = [f \in Fetches |-> IF stage[f] = "meta0" THEN "meta" ELSE stage[f]]
  /\ UNCHANGED <<kind, cur, seen, created, next, nextId, call, kept, used,
                 rotNew>>
  /\ UNCHANGED <<bind, chk, preReset>>

Next ==
  \/ \E c \in Calls : Discover(c)
  \/ \E c \in Calls : AfterMemoize(c)
  \/ \E c \in Calls : AfterPromise(c)
  \/ \E c \in Calls : AfterForced(c)
  \/ \E f \in Fetches, ok \in BOOLEAN : MetaResponse(f, ok)
  \/ \E f \in Fetches, ok \in BOOLEAN : JwksResponse(f, ok)
  \/ \E f \in Fetches : TimerFire(f)
  \/ OtherKey
  \/ Tick

\* the program in service: calls, responses, timers, other keys, the clock
Spec == Init /\ [][Next]_vars

\* the program under test, where _resetIssuerConfigCache is called as well
NextReset ==
  \/ Next
  \/ ResetCache

SpecReset == Init /\ [][NextReset]_vars

\* The program in service from the moment the rotation of the cached record
\* has failed: record 1, built at time 1 and read from the cache since, is
\* still the cache entry; its timer fired at 1 + maxAge and its rotation
\* fetch was rejected one tick later.  The rejected promise is referenced
\* by nothing any more and is left unnumbered.
InitExpired ==
  /\ now = MaxAge + 2
  /\ entry \in [val : {1}, at : MaxAge..(MaxAge + 2), others : {0}]
  /\ stage = [f \in Fetches |-> IF f = 1 THEN "ok" ELSE "none"]
  /\ kind = [f \in Fetches |-> IF f = 1 THEN "memo" ELSE "none"]
  /\ cur = [f \in Fetches |-> 0]
  /\ seen = [f \in Fetches |-> IF f = 1 THEN 1 ELSE 0]
  /\ created = [f \in Fetches |-> IF f = 1 THEN 1 ELSE 0]
  /\ next = [f \in Fetches |-> IF f = 1 THEN NextAfterFailure ELSE "none"]
  /\ nextId = 2
  /\ call = [c \in Calls |-> IdleCall]
  /\ kept = 1
  /\ used = {}
  /\ rotNew = NoRotation
  /\ preReset = {}
  /\ bind = NoBind
  /\ chk = NoCheck

SpecExpired == InitExpired /\ [][Next]_vars

----------------------------------------------------------------------------
\* _getUncachedIssuerConfig: the issuer/URL binding rule (RFC 8414)

\* A URL is its origin, its pathname as the sequence of its segments
\* ("/a/b" is <<"a", "b">>, "/a/" is <<"a", "">>, "/" is <<"">>) and what
\* follows the pathname.  Origins and segments hold no "/" and no "?", so
\* two URL strings are equal exactly when the three parts are.
WellKnown == ".well-known"
Origins == {"https://idp.example", "https://other.example"}
Segments == {WellKnown, "oauth-authorization-server", "tenant", ""}
MaxSegments == 3
PathsUpTo(n) == UNION {[1..k -> Segments] : k \in 1..n}
ConfigUrls == [origin : Origins, path : PathsUpTo(MaxSegments),
               query : {"", "?x"}]
Issuers == [origin : Origins, path : PathsUpTo(MaxSegments - 1), query : {""}]
NoUrl == [origin |-> "", path |-> <<>>, query |-> ""]

\* `new URL(...).pathname` and `.origin`
Pathname(u) == u.path
Origin(u) == u.origin

\* `wellKnownPath.match(WELL_KNOWN_REGEX)`, /\/\.well-known\/([^\/]+)/: the
\* first segment ".well-known" that a non-empty segment follows; its index,
\* or 0 when there is none (match returns null)
WellKnownMatch(path) ==
  LET I == {i \in 1..(Len(path) - 1) : path[i] = WellKnown /\ path[i + 1] # ""}
  IN IF I = {} THEN 0 ELSE Lowest(I)

\* `${origin}/.well-known/${anyPathSegment}`, plus pathname unless it is "/"
ExpectedConfigUrl(anyPathSegment, issuer) ==
  [origin |-> Origin(issuer),
   path |-> <<WellKnown, anyPathSegment>> \o
              (IF Pathname(issuer) = <<"">> THEN <<>> ELSE Pathname(issuer)),
   query |-> ""]

\* lines 121-140, for metadata that passed the format and HTTPS checks:
\* `match(...)[1]` of null throws a TypeError; a URL other than the expected
\* one throws the OperationError with `expected` and `actual`
BindingCheck ==
  /\ bind.pc = "start"
  /\ LET m == WellKnownMatch(Pathname(bind.url)) IN
     IF m = 0
       THEN bind' = [bind EXCEPT !.pc = "done", !.out = "TypeError"]
       ELSE LET expectedConfigUrl ==
                  ExpectedConfigUrl(Pathname(bind.url)[m + 1], bind.issuer)
            IN IF bind.url # expectedConfigUrl
                 THEN bind' = [bind EXCEPT !.pc = "done", !.out = "mismatch",
                                           !.expected = expectedConfigUrl,
                                           !.actual = bind.url]
                 ELSE bind' = [bind EXCEPT !.pc = "done", !.out = "proceed"]
  /\ UNCHANGED cacheVars
  /\ UNCHANGED chk

\* every issuerConfigUrl and every issuer of the domain
InitBind ==
  /\ InitCache
  /\ chk = NoCheck
  /\ bind \in [pc : {"start"}, url : ConfigUrls, issuer : Issuers,
                out : {"none"}, expected : {NoUrl}, actual : {NoUrl}]

NextBind == BindingCheck

SpecBind == InitBind /\ [][NextBind]_vars

----------------------------------------------------------------------------
\* _getUncachedIssuerConfig: the two GETs and the rules in between

\* the messages of the OperationErrors, the TypeError of line 122 and the
\* error `httpClient.get` throws
ConfigNotJson == "Invalid OAuth2 issuer configuration; format is not JSON."
IssuerNotHttps ==
  "Invalid OAuth2 issuer configuration; \"issuer\" is not an HTTPS URL."
JwksUriNotHttps ==
  "Invalid OAuth2 issuer configuration; \"jwks_uri\" is not an HTTPS URL."
IssuerMismatch ==
  "Invalid OAuth2 issuer configuration; \"issuer\" does not match configuration URL."
JwksNotJson == "Invalid OAuth2 issuer \"jwk_uri\" response; format is not JSON."
JwksMalformed ==
  "Invalid OAuth2 issuer \"jwk_uri\" response; JSON Web Key Set is malformed."
MatchTypeError == "TypeError"
HttpError == "HTTPError"

\* values of the fields `issuer` and `jwks_uri` of the metadata document:
\* absent, not a string, or a URL string
UndefinedValue == [type |-> "undefined", url |-> NoUrl]
NumberValue == [type |-> "number", url |-> NoUrl]
StringValue(u) == [type |-> "string", url |-> u]
PlainOrigins == {"http://idp.example"}
PlainIssuers == [origin : PlainOrigins, path : {<<"">>}, query : {""}]
IssuerValues ==
  {UndefinedValue, NumberValue} \cup
  {StringValue(u) : u \in Issuers \cup PlainIssuers}
JwksUris == [origin : {"https://idp.example", "http://idp.example"},
             path : {<<"jwks">>}, query : {""}]
JwksUriValues ==
  {UndefinedValue, NumberValue} \cup {StringValue(u) : u \in JwksUris}

\* `typeof v === 'string' && v.startsWith('https://')`
IsHttpsString(v) == v.type = "string" /\ v.url.origin \in Origins

\* what `httpClient.get(issuerConfigUrl, ...)` gives: it throws, or it
\* returns a response without `data`, or one with the metadata document
NoValue == [type |-> "none", url |-> NoUrl]
NoResponse == [net |-> "none", data |-> FALSE]
MetaThrows == [net |-> "error", data |-> FALSE, issuer |-> NoValue,
               jwks_uri |-> NoValue]
MetaNoData == [net |-> "ok", data |-> FALSE, issuer |-> NoValue,
               jwks_uri |-> NoValue]
MetaResponses ==
  {MetaThrows, MetaNoData} \cup
  [net : {"ok"}, data : {TRUE}, issuer : IssuerValues,
   jwks_uri : JwksUriValues]

\* what `httpClient.get(jwks_uri, ...)` gives; wellFormed says whether
\* createLocalJWKSet accepts the document
KeySetResponses ==
  {[net |-> "error", data |-> FALSE, wellFormed |-> FALSE],
   [net |-> "ok", data |-> FALSE, wellFormed |-> FALSE],
   [net |-> "ok", data |-> TRUE, wellFormed |-> FALSE],
   [net |-> "ok", data |-> TRUE, wellFormed |-> TRUE]}

\* line 75: the GET of issuerConfigUrl is issued
GetMetadata ==
  /\ bind.pc = "begin"
  /\ bind' = [bind EXCEPT !.pc = "meta", !.gets = bind.gets + 1]
  /\ UNCHANGED cacheVars
  /\ UNCHANGED chk

\* lines 75-143: the metadata GET answers with r; the checks of the
\* metadata document in their order and, when all pass, the GET of jwks_uri
MetadataResponse(r) ==
  /\ bind.pc = "meta"
  /\ LET run == [bind EXCEPT !.meta = r]
         m == WellKnownMatch(Pathname(bind.url))
         expectedConfigUrl ==
           ExpectedConfigUrl(Pathname(bind.url)[m + 1], r.issuer.url)
     IN bind' =
          IF r.net = "error"
            THEN [run EXCEPT !.pc = "done", !.out = HttpError]
          ELSE IF ~r.data
            THEN [run EXCEPT !.pc = "done", !.out = ConfigNotJson]
          ELSE IF ~IsHttpsString(r.issuer)
            THEN [run EXCEPT !.pc = "done", !.out = IssuerNotHttps]
          ELSE IF ~IsHttpsString(r.jwks_uri)
            THEN [run EXCEPT !.pc = "done", !.out = JwksUriNotHttps]
          ELSE IF m = 0
            THEN [run EXCEPT !.pc = "done", !.out = MatchTypeError]
          ELSE IF bind.url # expectedConfigUrl
            THEN [run EXCEPT !.pc = "done", !.out = IssuerMismatch]
          ELSE [run EXCEPT !.pc = "jwks", !.gets = bind.gets + 1]
  /\ UNCHANGED cacheVars
  /\ UNCHANGED chk

\* lines 143-205: the key-set GET answers with r; the checks of the key
\* set and the record
KeySetResponse(r) ==
  /\ bind.pc = "jwks"
  /\ LET run == [bind EXCEPT !.keys = r]
     IN bind' =
          IF r.net = "error"
            THEN [run EXCEPT !.pc = "done", !.out = HttpError]
          ELSE IF ~r.data
            THEN [run EXCEPT !.pc = "done", !.out = JwksNotJson]
          ELSE IF ~r.wellFormed
            THEN [run EXCEPT !.pc = "done", !.out = JwksMalformed]
          ELSE [run EXCEPT !.pc = "done", !.out = "record"]
  /\ UNCHANGED cacheVars
  /\ UNCHANGED chk

\* one call of _getUncachedIssuerConfig for every issuerConfigUrl
InitFetch ==
  /\ InitCache
  /\ chk = NoCheck
  /\ bind \in [pc : {"begin"}, url : ConfigUrls, gets : {0},
                meta : {NoResponse}, keys : {NoResponse}, out : {"none"}]

NextFetch ==
  \/ GetMetadata
  \/ \E r \in MetaResponses : MetadataResponse(r)
  \/ \E r \in KeySetResponses : KeySetResponse(r)

SpecFetch == InitFetch /\ [][NextFetch]_vars

----------------------------------------------------------------------------
\* checkTargetScopedAccessToken and checkAccessToken

\* Strings are sequences of characters; `undefined` is a value no string
\* equals.
Undefined == <<"undefined">>

\* String.prototype.startsWith, slice(n), includes and split on a character
StartsWith(s, p) == Len(p) <= Len(s) /\ SubSeq(s, 1, Len(p)) = p
Slice(s, n) == SubSeq(s, n + 1, Len(s))
Includes(s, ch) == \E i \in 1..Len(s) : s[i] = ch
RECURSIVE Split(_, _)
Split(s, sep) ==
  IF ~Includes(s, sep) THEN <<s>>
  ELSE LET i == Lowest({k \in 1..Len(s) : s[k] = sep})
       IN <<SubSeq(s, 1, i - 1)>> \o Split(Slice(s, i), sep)

Read == <<"r", "e", "a", "d">>
Write == <<"w", "r", "i", "t", "e">>
Https == <<"h", "t", "t", "p", "s", ":", "/", "/">>

\* DEFAULT_ACTION_FOR_METHOD.get(method)
ReadMethods == {"GET", "HEAD", "OPTIONS"}
WriteMethods == {"POST", "PUT", "PATCH", "DELETE", "CONNECT", "TRACE"}
DefaultActionCommonOnly(method) ==
  CASE method \in ReadMethods -> Read
    [] method \in WriteMethods \ {"CONNECT", "TRACE"} -> Write
    [] OTHER -> Undefined

DefaultActionForMethod(method) ==
  CASE method \in ReadMethods -> Read
    [] method \in WriteMethods -> Write
    [] OTHER -> Undefined

\* what a call returned or threw
NoOut == [value |-> "none", name |-> "none", status |-> 0, code |-> "none",
          claim |-> "none"]
Returned(v) == [NoOut EXCEPT !.value = v]
Threw(name, status, code, claim) ==
  [NoOut EXCEPT !.name = name, !.status = status, !.code = code,
                !.claim = claim]

\* _checkExpectedValues, for expected values that are strings or undefined:
\* rootInvocationTarget and a given target must include ":"
CheckExpectedValues(c) ==
  IF ~Includes(c.root, ":") THEN "Error"
  ELSE IF c.target = Undefined THEN "ok"
  ELSE IF ~Includes(c.target, ":") THEN "Error"
  ELSE "ok"

\* `expected.action ?? DEFAULT_ACTION_FOR_METHOD.get(req.method)`
ExpectedAction(c) ==
  IF c.action # Undefined THEN c.action ELSE DefaultActionForMethod(c.method)

\* the expected target, by default `https://${expected.host}${req.originalUrl}`
ExpectedTarget(c) ==
  IF c.target = Undefined THEN Https \o c.host \o c.url ELSE c.target

TargetAnywhere(target, root) == TRUE

\* `expected.target.startsWith(rootInvocationTarget)`
TargetInRoot(target, root) == StartsWith(target, root)

\* `${expected.action}:`
RequiredActionScope(action) == action \o <<":">>

\* `expected.target.slice(rootInvocationTarget.length) || '/'`
RelativePath(target, root) ==
  LET path == Slice(target, Len(root))
  IN IF path = <<>> THEN <<"/">> ELSE path

\* `payload.scope?.split(' ') || []`
Scopes(scope) == IF scope = Undefined THEN <<>> ELSE Split(scope, " ")

FullPathNever(pathScope) == FALSE

\* `pathScope === '/'`: full path access granted
FullPath(pathScope) == pathScope = <<"/">>

Delimiters == {"/", "?", "&", "#"}

BoundaryAtEndOnly(rest) == Len(rest) = 0

BoundaryAnywhere(rest) == TRUE

\* `rest.length === 0 || rest.startsWith('/') || ... || rest.startsWith('#')`
Boundary(rest) == Len(rest) = 0 \/ rest[1] \in Delimiters

\* the loop over the space-delimited scope values, from the i-th on
RECURSIVE MatchFrom(_, _, _, _)
MatchFrom(scopes, i, requiredActionScope, path) ==
  IF i > Len(scopes) THEN FALSE
  ELSE IF ~StartsWith(scopes[i], requiredActionScope)
  THEN MatchFrom(scopes, i + 1, requiredActionScope, path)
  ELSE LET pathScope == Slice(scopes[i], Len(requiredActionScope))
       IN IF FullPath(pathScope) THEN TRUE
          ELSE IF StartsWith(path, pathScope)
                  /\ Boundary(Slice(path, Len(pathScope)))
          THEN TRUE
          ELSE MatchFrom(scopes, i + 1, requiredActionScope, path)

ScopeMatches(scope, action, root, target) ==
  MatchFrom(Scopes(scope), 1, RequiredActionScope(action),
            RelativePath(target, root))

ScopeDenialAsFalse == Returned("false")

\* the BedrockError thrown when no scope value matches
ScopeDenial ==
  Threw("NotAllowedError", 403, "ERR_JWT_CLAIM_VALIDATION_FAILED", "scope")

\* jose's jwtVerify, for a token whose header has `token.typ` and whose first
\* failing check other than `typ` is `token.fail` ("none" when all pass); the
\* `typ` option is checked before the claims when it is a string
JwtVerify(token, typ) ==
  IF typ \notin {"undefined", "false"} /\ token.typ # typ
  THEN [ok |-> FALSE, code |-> "ERR_JWT_CLAIM_VALIDATION_FAILED",
        claim |-> "typ"]
  ELSE IF token.fail = "none"
  THEN [ok |-> TRUE, code |-> "none", claim |-> "none"]
  ELSE IF token.fail = "exp"
  THEN [ok |-> FALSE, code |-> "ERR_JWT_EXPIRED", claim |-> "exp"]
  ELSE [ok |-> FALSE, code |-> "ERR_JWT_CLAIM_VALIDATION_FAILED",
        claim |-> token.fail]

\* the `typ` that checkAccessToken hands to jwtVerify: the literal 'at+jwt',
\* whatever the caller supplied
VerifyTyp(typ) == "at+jwt"

Finish(c, out) == [c EXCEPT !.pc = "done", !.out = out]

\* checkAccessToken up to `await discoverIssuer(...)`
CheckAccessToken(c) ==
  IF c.args = "neither" THEN Finish(c, Threw("TypeError", 0, "none", "none"))
  ELSE IF c.args = "both" THEN Finish(c, Threw("TypeError", 0, "none", "none"))
  ELSE IF c.audience # "string"
  THEN Finish(c, Threw("TypeError", 0, "none", "none"))
  ELSE IF c.args = "req" /\ c.auth = "other"
  THEN \* `match(OAUTH2_TOKEN_REGEX)` is null and `null[1]` throws
       Finish(c, Threw("TypeError", 0, "none", "none"))
  ELSE IF c.args = "req" /\ c.auth = "absent"
  THEN Finish(c, Threw("NotAllowedError", 403, "ERR_JWT_INVALID", "none"))
  ELSE [c EXCEPT !.pc = "discover", !.discovered = TRUE]

\* checkTargetScopedAccessToken from the return of getExpectedValues to the
\* call of checkAccessToken
CheckExpected(c) ==
  IF CheckExpectedValues(c) # "ok"
  THEN Finish(c, Threw("Error", 0, "none", "none"))
  ELSE IF ExpectedAction(c) = Undefined
  THEN Finish(c, Threw("NotSupportedError", 400, "none", "none"))
  ELSE LET d == [c EXCEPT !.act = ExpectedAction(c), !.tgt = ExpectedTarget(c)]
       IN IF ~TargetInRoot(d.tgt, d.root)
          THEN Finish(d, Threw("Error", 0, "none", "none"))
          ELSE CheckAccessToken(
                 [d EXCEPT !.audience = IF c.audience = "undefined"
                                        THEN "string" ELSE c.audience])

\* the rest of checkTargetScopedAccessToken, once the token verified
CheckScope(c) ==
  IF ScopeMatches(c.scope, c.act, c.root, c.tgt)
  THEN [Finish(c, Returned("true")) EXCEPT !.scoped = TRUE]
  ELSE [Finish(c, ScopeDenial) EXCEPT !.scoped = TRUE]

\* `await getExpectedValues({req})`
GetExpectedValues ==
  /\ chk.pc = "start"
  /\ chk.fn = "target"
  /\ chk' = [chk EXCEPT !.pc = "expected"]
  /\ UNCHANGED <<cacheVars, bind>>

AfterExpectedValues ==
  /\ chk.pc = "expected"
  /\ chk' = CheckExpected(chk)
  /\ UNCHANGED <<cacheVars, bind>>

\* a direct call of checkAccessToken
CallCheckAccessToken ==
  /\ chk.pc = "start"
  /\ chk.fn = "access"
  /\ chk' = CheckAccessToken(chk)
  /\ UNCHANGED <<cacheVars, bind>>

\* discoverIssuer settles, and on success jwtVerify is called
AfterDiscoverIssuer ==
  /\ chk.pc = "discover"
  /\ \E ok \in BOOLEAN :
       chk' = IF ok THEN [chk EXCEPT !.pc = "verify", !.verified = TRUE]
              ELSE Finish(chk, Threw("OperationError", 500, "none", "none"))
  /\ UNCHANGED <<cacheVars, bind>>

\* jwtVerify settles
AfterJwtVerify ==
  /\ chk.pc = "verify"
  /\ LET r == JwtVerify([typ |-> chk.tokTyp, fail |-> chk.fail],
                        VerifyTyp(chk.typ))
     IN chk' = IF ~r.ok
               THEN Finish(chk, Threw("NotAllowedError", 403, r.code, r.claim))
               ELSE IF chk.fn = "access"
               THEN Finish(chk, Returned("verifyResult"))
               ELSE CheckScope(chk)
  /\ UNCHANGED <<cacheVars, bind>>

NextToken ==
  \/ GetExpectedValues
  \/ AfterExpectedValues
  \/ CallCheckAccessToken
  \/ AfterDiscoverIssuer
  \/ AfterJwtVerify

\* Requests, expected values and tokens the checks are run on
Methods == ReadMethods \cup WriteMethods \cup {"PURGE"}
RootH == Https \o <<"h">>
RootFoos == RootH \o <<"/", "f", "o", "o", "s">>
Progress ==
  [pc : {"start"}, act : {Undefined}, tgt : {Undefined},
   discovered : {FALSE}, verified : {FALSE}, scoped : {FALSE}, out : {NoOut}]
Merge(f, g) == [k \in DOMAIN f \cup DOMAIN g |->
                 IF k \in DOMAIN f THEN f[k] ELSE g[k]]
Inputs(I) == {Merge(i, p) : i \in I, p \in Progress}

\* calls of checkTargetScopedAccessToken over methods, expected values,
\* authorization headers and tokens
TargetCalls ==
  [fn : {"target"}, method : Methods, action : {Undefined, Write},
   host : {<<"h">>, <<"x">>}, url : {<<"/", "f", "o", "o", "s", "/", "1">>},
   root : {RootH, RootFoos, <<"/", "f", "o", "o", "s">>},
   target : {Undefined, RootFoos \o <<"?", "a">>, <<"/", "f", "o", "o", "s">>},
   args : {"req"}, audience : {"undefined"}, auth : {"bearer", "absent"},
   typ : {"undefined", "jwt", "false"}, tokTyp : {"at+jwt", "jwt"},
   fail : {"none", "exp"},
   scope : {Undefined, <<>>, <<"r", "e", "a", "d", ":", "/">>}]

\* calls of checkAccessToken over its arguments and tokens
AccessCalls ==
  [fn : {"access"}, method : {"GET"}, action : {Undefined},
   host : {<<"h">>}, url : {<<"/">>}, root : {RootH}, target : {Undefined},
   args : {"req", "jwt", "both", "neither"},
   audience : {"undefined", "empty", "string"},
   auth : {"bearer", "absent", "other"},
   typ : {"undefined", "at+jwt", "jwt", "false"}, tokTyp : {"at+jwt", "jwt"},
   fail : {"none", "exp", "nbf", "iss"}, scope : {Undefined}]

\* scope claims of up to MaxCandidates space-delimited values
MaxCandidates == 2
ActionScopes == {Read \o <<":">>, Write \o <<":">>, Read}
PathScopes ==
  {<<>>,
   <<"/">>,
   <<"/", "f", "o", "o", "s">>,
   <<"/", "f", "o", "o">>,
   <<"/", "f", "o", "o", "s", "/">>,
   <<"/", "f", "o", "o", "s", "/", "1">>,
   <<"/", "1">>,
   <<"b", "a", "r">>,
   <<"/", "f", "o", "o", "s", "?", "a">>}
Candidates == {a \o q : a \in ActionScopes, q \in PathScopes} \cup {<<>>}
RECURSIVE ClaimsOf(_)
ClaimsOf(n) ==
  IF n = 1 THEN Candidates
  ELSE ClaimsOf(n - 1)
       \cup {c \o <<" ">> \o d : c \in ClaimsOf(n - 1), d \in Candidates}
ScopeClaims == ClaimsOf(MaxCandidates) \cup {Undefined}
RelativePaths ==
  {<<>>,
   <<"/">>,
   <<"/", "f", "o", "o", "s">>,
   <<"/", "f", "o", "o", "s", "/", "1">>,
   <<"/", "f", "o", "o", "s", "b", "a", "r">>,
   <<"/", "f", "o", "o", "s", "?", "a">>,
   <<"/", "f", "o", "o", "s", "#", "a">>,
   <<"/", "f", "o", "o", "s", "&", "a">>,
   <<"/", "f", "o", "o">>,
   <<"/", "f", "o", "o", "s", "/", "1", "/", "b", "a", "r", "s", "/", "2">>}

\* calls of checkTargetScopedAccessToken with a valid token, over scope
\* claims, roots and targets
ScopedCalls ==
  [fn : {"target"}, method : {"GET"}, action : {Undefined, Write},
   host : {<<"h">>}, url : {<<"/">>}, root : {RootH, RootFoos},
   target : {RootH \o r : r \in RelativePaths},
   args : {"req"}, audience : {"undefined"}, auth : {"bearer"},
   typ : {"undefined"}, tokTyp : {"at+jwt"}, fail : {"none"},
   scope : ScopeClaims]

InitToken ==
  /\ InitCache
  /\ bind = NoBind
  /\ chk \in Inputs(TargetCalls \cup AccessCalls \cup ScopedCalls)

SpecToken == InitToken /\ [][NextToken]_vars


----------------------------------------------------------------------------
\* properties

\* call c returns in this step
Returns(c) == call[c].pc # "done" /\ call'[c].pc = "done"

\* call c is running
Running(c) == call[c].pc \in {"memo", "peeked", "forced"}

\* C1 as stated: every call that begins while the key is absent or while
\* the memoized fetch of the key is in flight awaits that one fetch, starts
\* no fetch of its own and returns that fetch's record or rejection.
C1_SingleFlight ==
  [][\A c \in Calls :
       /\ call'[c].first # 0 =>
            /\ call'[c].pc = "memo" => call'[c].waitOn = call'[c].first
            /\ call'[c].pc # "forced"
       /\ (Returns(c) /\ call[c].first # 0) =>
            /\ call'[c].res \in {"cached", "error"}
            /\ call'[c].rec = call[c].first]_vars

\* C2 as stated: at most one fetch-and-validate computation of the URL is in
\* flight at a time.
C2_NoOverlap == Cardinality({f \in Fetches : Pending(f)}) <= 1

\* C3: a call never returns a record whose `expires` is earlier than the
\* time at which the call checked it.
C3_BoundedStaleness ==
  [][\A c \in Calls :
       (Returns(c) /\ call'[c].res \in {"cached", "forced"}) =>
          Expires(call'[c].rec) >= now]_vars

\* a call found the cached record expired, its rotation having failed, and
\* is refetching instead of serving it
C3_Witness ==
  \E c \in Calls :
    /\ call[c].pc = "forced"
    /\ Expires(call[c].prom) < now
    /\ next[call[c].prom] = "error"

\* C4: a rotation's promise enters the cache only in place of the entry the
\* rotation set out to replace; when that entry is no longer the cache
\* entry as the rotation succeeds, the cache is left as it is.
C4_RotationSwap ==
  [][\A g \in Fetches : kind[g] = "rot" =>
       /\ (entry'.val = g /\ entry.val # g) =>
            (cur[g] # 0 /\ PeekVal(entry) = cur[g])
       /\ (Pending(g) /\ stage'[g] = "ok" /\ PeekVal(entry) # cur[g]) =>
            entry' = entry]_vars

\* a rotation has just succeeded while the cache entry was the memoized
\* fetch of a later call: its record was discarded
C4_Witness ==
  \E g \in Fetches, h \in Fetches :
    /\ kind[g] = "rot" /\ Resolved(g) /\ created[g] = now
    /\ kind[h] = "memo" /\ stage[h] \in {"meta", "jwks"}
    /\ entry.val = h
    /\ h # cur[g]

\* C5: a failed rotation leaves the cache entry as it was and resolves
\* `next` of the rotated record to the error; no call ever receives a
\* rotation's error; no `next` promise is ever rejected.
C5_RotationFailure ==
  [][/\ \A g \in Fetches :
          (kind[g] = "rot" /\ Pending(g) /\ stage'[g] = "err") =>
             (entry' = entry /\ next'[cur[g]] = "error")
     /\ \A c \in Calls :
          call'[c].res = "error" => kind'[call'[c].rec] # "rot"
     /\ \A f \in Fetches : next'[f] # "rejected"]_vars

\* a rotation has failed and the record it was to replace is still the
\* cache entry
C5_Witness ==
  \E g \in Fetches :
    /\ kind[g] = "rot" /\ Rejected(g)
    /\ entry.val = cur[g]
    /\ next[cur[g]] = "error"

\* C6 as stated: a call that begins before the soft deadline of the record
\* the previous call returned from the cache, with no cache reset or
\* eviction since, finds it in the cache and returns it without fetching.
C6_Idempotent ==
  [][\A c \in Calls :
       /\ call'[c].again # 0 => (call'[c].hit /\ call'[c].pc # "forced")
       /\ (Returns(c) /\ call[c].again # 0) =>
            (call'[c].res = "cached" /\ call'[c].rec = call[c].again)]_vars

\* C6 amended: the same for a call that begins while that record is still
\* the cache entry, that is no later than maxAge after the last memoize
\* access of the key.
C6_IdempotentWhileCached ==
  [][\A c \in Calls :
       /\ (call'[c].again # 0 /\ call'[c].fresh) =>
            (call'[c].hit /\ call'[c].pc # "forced")
       /\ (Returns(c) /\ call[c].again # 0 /\ call[c].fresh) =>
            (call'[c].res = "cached" /\ call'[c].rec = call[c].again)]_vars

\* a second call, begun at the soft deadline of the cached record, is about
\* to return it
C6_Witness ==
  \E c \in Calls :
    /\ call[c].pc = "peeked"
    /\ call[c].again # 0 /\ call[c].fresh
    /\ call[c].prom = call[c].again
    /\ now = created[call[c].again] + MaxAge

\* C7 as stated: when a record was found in the cache by a call within
\* maxAge of its creation, the first call after its rotation fetch
\* succeeded is served from the cache, starts no fetch and returns a record
\* other than the rotated one.
C7_Rotation ==
  [][\A c \in Calls :
       /\ call'[c].rot # 0 => (call'[c].hit /\ call'[c].pc # "forced")
       /\ (Returns(c) /\ call[c].rot # 0) =>
            /\ call'[c].res = "cached"
            /\ call'[c].rec # cur[call[c].rot]]_vars

\* C7 amended: when the rotated record was still the cache entry as the
\* rotation fetch succeeded, the first call after it, made no later than
\* maxAge after it with no cache reset or eviction in between, is served the
\* rotation's record from the cache and starts no fetch.
C7_RotationWhileCached ==
  [][\A c \in Calls :
       /\ (call'[c].rot # 0 /\ call'[c].rotHit) =>
            (call'[c].hit /\ call'[c].pc # "forced")
       /\ (Returns(c) /\ call[c].rot # 0 /\ call[c].rotHit) =>
            /\ call'[c].res = "cached"
            /\ call'[c].rec = call[c].rot
            /\ call'[c].rec # cur[call[c].rot]]_vars

\* the first call after a rotation is about to return the rotation's record
C7_Witness ==
  \E c \in Calls :
    /\ call[c].pc = "peeked"
    /\ call[c].rot # 0 /\ call[c].rotHit
    /\ call[c].prom = call[c].rot
    /\ kind[call[c].rot] = "rot"

\* C8 as stated: a call that finds in the cache an expired record whose
\* rotation failed returns the record of its own forced fetch, or that
\* fetch's rejection when the issuer is still unreachable.
C8_Recovery ==
  [][\A c \in Calls :
       (Returns(c) /\ call[c].late) =>
          /\ call'[c].res \in {"forced", "error"}
          /\ kind[call'[c].rec] = "forced"]_vars

\* C9: a call awaiting a memoized or forced fetch that was rejected returns
\* that rejection, and so does every call awaiting the same fetch.
C9_ErrorsDelivered ==
  [][\A c \in Calls :
       /\ (call[c].pc \in {"memo", "forced"} /\ Rejected(call[c].waitOn)
             /\ call'[c].pc # call[c].pc) =>
            call'[c] = Done(c, "error", call[c].waitOn)
       /\ (call'[c].pc = "done" /\ call'[c].res = "error") =>
            Rejected(call'[c].rec)
       /\ (call'[c].pc = "done" /\ call'[c].res \in {"cached", "forced"}) =>
            Resolved(call'[c].rec)]_vars

\* two calls shared a fetch that failed: one has the rejection, the other,
\* which joined the fetch in flight, is about to get it
C9_Witness ==
  \E f \in Fetches :
    /\ Rejected(f)
    /\ call[1].pc = "done" /\ call[1].res = "error" /\ call[1].rec = f
    /\ call[2].pc = "memo" /\ call[2].waitOn = f
    /\ call[2].hit /\ call[2].first = f

\* C10 as stated: no call fails by reading `expires` of an absent entry.
C10_NoTypeError == \A c \in Calls : call[c].res # "typeerror"

\* C11 as stated: every call that returned a result, from the cache or from
\* its forced fetch, returned an object with exactly the keys issuer, jwks
\* and config.
C11_ResultShape ==
  \A c \in Calls :
    (call[c].pc = "done" /\ call[c].res \in {"cached", "forced"}) =>
       ResultKeys(call[c].res) = {"issuer", "jwks", "config"}

\* C12: a call that begins while the cache entry of the key is a rejected
\* promise starts no fetch, leaves the entry in place, awaits that promise
\* and returns its rejection.
C12_RejectionCached ==
  [][\A c \in Calls :
       /\ (Free(c) /\ call'[c].pc = "memo"
              /\ StageOf(PeekVal(entry)) = "err") =>
            /\ nextId' = nextId /\ stage' = stage
            /\ entry'.val = entry.val
            /\ call'[c].waitOn = entry.val
       /\ (call[c].pc = "memo" /\ call[c].hit /\ call[c].first = 0
              /\ StageOf(call[c].waitOn) = "err"
              /\ call'[c].pc # "memo") =>
            call'[c] = Done(c, "error", call[c].waitOn)]_vars

\* a call has returned the rejection of a fetch, and a later call, begun
\* when that rejected promise was the settled cache entry, awaits it
C12_Witness ==
  \E c \in Calls, d \in Calls :
    /\ c # d
    /\ call[d].pc = "done" /\ call[d].res = "error"
    /\ call[c].pc = "memo" /\ call[c].hit /\ call[c].first = 0
    /\ call[c].waitOn = call[d].rec
    /\ Rejected(call[c].waitOn)
    /\ entry.val = call[c].waitOn

\* issuerConfigUrl u is origin(issuer) + "/.well-known/" + segment +
\* (pathname(issuer) unless it is "/"), segment being what follows
\* "/.well-known/" in u
BoundTo(u, issuer) ==
  /\ u.origin = issuer.origin
  /\ u.query = ""
  /\ Len(u.path) >= 2
  /\ u.path[1] = WellKnown
  /\ SubSeq(u.path, 3, Len(u.path)) =
       (IF issuer.path = <<"">> THEN <<>> ELSE issuer.path)

\* C13 as stated: the binding rule lets the resolution proceed exactly when
\* issuerConfigUrl is the URL bound to the issuer, and every other
\* issuerConfigUrl, one without a /.well-known/ segment included, fails with
\* the mismatch error that carries the expected and the actual URL.
C13_Binding ==
  bind.pc = "done" =>
    IF BoundTo(bind.url, bind.issuer)
      THEN bind.out = "proceed"
      ELSE bind.out = "mismatch" /\ bind.actual = bind.url

\* A call of checkTargetScopedAccessToken whose token verified and that has
\* returned or thrown after matching the scope
Matched == chk.fn = "target" /\ chk.pc = "done" /\ chk.scoped
Authorized == Matched /\ chk.out = Returned("true")

RefCandidates(scope) ==
  IF scope = Undefined THEN {}
  ELSE {SubSeq(scope, x[1], x[2]) :
          x \in {y \in (1..(Len(scope) + 1)) \X (0..Len(scope)) :
                   /\ y[1] <= y[2] + 1
                   /\ (y[1] = 1 \/ scope[y[1] - 1] = " ")
                   /\ (y[2] = Len(scope) \/ scope[y[2] + 1] = " ")
                   /\ \A k \in y[1]..y[2] : scope[k] # " "}}
RefRelativePath(target, root) ==
  IF Len(target) = Len(root) THEN <<"/">>
  ELSE SubSeq(target, Len(root) + 1, Len(target))
RefGrants(candidate, action, rel) ==
  LET n == Len(action) + 1
      k == Len(candidate) - n
  IN /\ k >= 0
     /\ SubSeq(candidate, 1, n) = action \o <<":">>
     /\ \/ SubSeq(candidate, n + 1, Len(candidate)) = <<"/">>
        \/ /\ k <= Len(rel)
           /\ SubSeq(rel, 1, k) = SubSeq(candidate, n + 1, Len(candidate))
           /\ (k = Len(rel) \/ rel[k + 1] \in {"/", "?", "&", "#"})
RefAuthorized(scope, action, root, target) ==
  \E candidate \in RefCandidates(scope) :
    RefGrants(candidate, action, RefRelativePath(target, root))

\* C15: for every scope claim, action, rootInvocationTarget and target
\* (target prefixed by root), a verified request is authorized iff the
\* reference rule grants it, and is denied otherwise; so pathScope "/foo"
\* never authorizes relativePath "/foobar".
C15_ReferenceRule ==
  Matched =>
    /\ Authorized <=> RefAuthorized(chk.scope, chk.act, chk.root, chk.tgt)
    /\ Authorized \/ chk.out = ScopeDenial

\* scope "read:/foos" is denied for target "https://h/foosbar" under "https://h"
C15_Witness ==
  /\ Matched
  /\ chk.out = ScopeDenial
  /\ chk.act = Read
  /\ chk.root = RootH
  /\ chk.tgt = RootFoos \o <<"b", "a", "r">>
  /\ chk.scope = Read \o <<":", "/", "f", "o", "o", "s">>

\* C16: a verified token whose scope contains the candidate action + ":/"
\* is authorized for every target that starts with rootInvocationTarget,
\* whatever the relative path and whatever candidates precede it.
C16_FullRootGrant ==
  (Matched /\ (chk.act \o <<":", "/">>) \in RefCandidates(chk.scope))
  => Authorized

\* "read:/1 read:/" authorizes "https://h/foos/1" under "https://h"
C16_Witness ==
  /\ Authorized
  /\ chk.act = Read
  /\ chk.root = RootH
  /\ chk.tgt = RootFoos \o <<"/", "1">>
  /\ chk.scope = Read \o <<":", "/", "1", " ">> \o Read \o <<":", "/">>

\* C17: once the expected values passed their checks, an explicit action is
\* the expected action whatever the method; with no action the expected
\* action is read for GET/HEAD/OPTIONS and write for
\* POST/PUT/PATCH/DELETE/CONNECT/TRACE, and for any other method the call
\* fails with NotSupportedError, status 400.
C17_MethodDefaulting ==
  (/\ chk.fn = "target"
   /\ chk.pc \notin {"start", "expected"}
   /\ CheckExpectedValues(chk) = "ok")
  => IF chk.action # Undefined
     THEN chk.act = chk.action /\ chk.out.name # "NotSupportedError"
     ELSE IF chk.method \in {"GET", "HEAD", "OPTIONS"}
     THEN chk.act = Read /\ chk.out.name # "NotSupportedError"
     ELSE IF chk.method \in {"POST", "PUT", "PATCH", "DELETE", "CONNECT",
                              "TRACE"}
     THEN chk.act = Write /\ chk.out.name # "NotSupportedError"
     ELSE /\ chk.pc = "done"
          /\ chk.out = Threw("NotSupportedError", 400, "none", "none")

\* CONNECT with no explicit action goes on as a write
C17_Witness ==
  /\ chk.fn = "target"
  /\ chk.pc = "discover"
  /\ chk.method = "CONNECT"
  /\ chk.action = Undefined
  /\ chk.act = Write

\* the expected target, explicit or defaulted, lies outside the root
OutsideRoot ==
  /\ chk.fn = "target"
  /\ LET target == ExpectedTarget(chk)
     IN \/ Len(target) < Len(chk.root)
        \/ SubSeq(target, 1, Len(chk.root)) # chk.root

\* C18: if the expected target (explicit, or defaulted to
\* https://{host}{request path+query}) does not start with
\* rootInvocationTarget, the call is rejected with no issuer discovery, no
\* token verification and no scope matching, whatever token was presented.
C18_RejectedBeforeToken ==
  OutsideRoot =>
    /\ ~chk.discovered
    /\ ~chk.verified
    /\ ~chk.scoped
    /\ chk.pc \in {"start", "expected", "done"}
    /\ chk.pc = "done" => chk.out.name \in {"Error", "NotSupportedError"}

\* a request with a valid token was rejected for its target
C18_Witness ==
  /\ OutsideRoot
  /\ chk.pc = "done"
  /\ chk.tgt # Undefined
  /\ chk.out = Threw("Error", 0, "none", "none")
  /\ chk.auth = "bearer"
  /\ chk.fail = "none"
  /\ chk.scope = Read \o <<":", "/">>

\* C19: when the token verified and no scope candidate matches (a missing or
\* empty scope claim included), the call throws NotAllowedError with
\* httpStatusCode 403 and claim "scope"; a call never returns anything but
\* true, and the denial is never a 500-class error.
C19_ScopeDenied ==
  /\ (Matched /\ ~RefAuthorized(chk.scope, chk.act, chk.root, chk.tgt))
     => /\ chk.out.value = "none"
        /\ chk.out.name = "NotAllowedError"
        /\ chk.out.status = 403
        /\ chk.out.claim = "scope"
  /\ (chk.fn = "target" /\ chk.pc = "done")
     => chk.out.value \in {"none", "true"}

\* a valid token without a scope claim was denied
C19_Witness ==
  /\ Matched
  /\ chk.scope = Undefined
  /\ chk.out.name = "NotAllowedError"
  /\ chk.out.status = 403
  /\ chk.out.claim = "scope"

\* C20: the caller-supplied `typ` option (default at+jwt) is what token
\* verification requires: an otherwise valid token whose typ header equals
\* the supplied typ is accepted, and with typ false a token of any typ is
\* accepted, by checkAccessToken and by checkTargetScopedAccessToken alike.
C20_TypOption ==
  (/\ chk.pc = "done"
   /\ chk.verified
   /\ chk.fail = "none"
   /\ \/ chk.typ = "false"
      \/ chk.tokTyp = (IF chk.typ = "undefined" THEN "at+jwt" ELSE chk.typ))
  => /\ chk.out.claim # "typ"
     /\ chk.fn = "access" => chk.out = Returned("verifyResult")
     /\ chk.fn = "target" => chk.scoped

\* a token of typ "jwt", checked with the option typ "jwt", is rejected for
\* its typ
C20_Witness ==
  /\ chk.fn = "access"
  /\ chk.pc = "done"
  /\ chk.typ = "jwt"
  /\ chk.tokTyp = "jwt"
  /\ chk.fail = "none"
  /\ chk.out = Threw("NotAllowedError", 403,
                     "ERR_JWT_CLAIM_VALIDATION_FAILED", "typ")

\* a call of checkAccessToken with valid arguments has returned or thrown
AccessDone ==
  /\ chk.fn = "access"
  /\ chk.pc = "done"
  /\ chk.args \in {"req", "jwt"}
  /\ chk.audience = "string"

\* C21: whenever checkAccessToken has valid arguments and the token is
\* absent, is not carried as a well-formed Bearer authorization header, or
\* is rejected by the verifier, the call fails with NotAllowedError whose
\* details have httpStatusCode 403 and the failure code (and the claim the
\* verifier names); the failure is never an error of another type.
C21_TokenFailures ==
  /\ (AccessDone /\ chk.args = "req" /\ chk.auth # "bearer")
     => /\ chk.out.name = "NotAllowedError"
        /\ chk.out.status = 403
        /\ chk.out.code = "ERR_JWT_INVALID"
  /\ (AccessDone /\ chk.verified /\ chk.out.value = "none")
     => /\ chk.out.name = "NotAllowedError"
        /\ chk.out.status = 403
        /\ chk.out.code # "none"
        /\ chk.out.claim # "none"

\* an authorization header that is not of the Bearer form ends in a TypeError
C21_Witness ==
  /\ AccessDone
  /\ chk.args = "req"
  /\ chk.auth = "other"
  /\ chk.out.name = "TypeError"

\* C22: checkAccessToken called with neither or both of req and jwt, or
\* with an audience that is not a non-empty string, fails with TypeError,
\* and called with no bearer token fails with NotAllowedError; each of
\* these failures comes before issuer discovery starts.
C22_EarlyFailures ==
  (chk.fn = "access" /\ chk.pc = "done") =>
    /\ (chk.args \in {"neither", "both"} \/ chk.audience # "string")
       => (chk.out.name = "TypeError" /\ ~chk.discovered)
    /\ (/\ chk.args = "req"
        /\ chk.audience = "string"
        /\ chk.auth # "bearer")
       => (chk.out.name = "NotAllowedError" /\ ~chk.discovered)

\* a request without a bearer token fails before discovery, with a TypeError
C22_Witness ==
  /\ chk.fn = "access"
  /\ chk.pc = "done"
  /\ chk.args = "req"
  /\ chk.audience = "string"
  /\ chk.auth = "other"
  /\ ~chk.discovered
  /\ chk.out = Threw("TypeError", 0, "none", "none")

\* C23: a rotation fetch is started only by the timer of a record that is,
\* when the timer fires, what the cache entry of the URL resolves to; so a
\* record starts at most one rotation fetch, and a record that is not the
\* current cache entry (the result of a forced fetch, a replaced or deleted
\* record) starts none.
C23_RotationStart ==
  [][\A g \in Fetches :
       (kind[g] = "none" /\ kind'[g] = "rot") =>
         LET f == cur'[g] IN
         /\ f \in Fetches
         /\ TimerDue(f)
         /\ Resolved(f)
         /\ entry.val = f
         /\ ~IsStale(entry, now)
         /\ kind[f] # "forced"
         /\ \A h \in Fetches : ~(kind[h] = "rot" /\ cur[h] = f)]_vars

\* one record started its rotation, and the timer of another gave up
C23_Witness ==
  \E f, g, h \in Fetches :
    /\ kind[g] = "rot"
    /\ cur[g] = f
    /\ h # f
    /\ next[h] = "null"

\* C24: a discoverIssuer call that finds the record it resolved expired
\* deletes the cache entry only if the entry is still the promise it
\* resolved; an entry holding any other promise (one written after the one
\* the call observed) is left as it is.
C24_DeleteOwnOnly ==
  [][\A c \in Calls :
       (call[c].pc = "peeked" /\ call'[c].pc = "forced") =>
         IF entry.val = call[c].prom /\ ~IsStale(entry, now)
           THEN entry' = NoEntry
           ELSE entry' = entry]_vars

\* a call went on to its forced fetch and spared the entry another call
\* had stored in the meantime
C24_Witness ==
  \E c \in Calls :
    /\ call[c].pc = "forced"
    /\ call[c].prom # 0
    /\ entry.val # 0
    /\ entry.val # call[c].prom
    /\ entry.val < call[c].waitOn

\* C25: the promise of a forced fetch is never the cache entry (nor what a
\* rotation replaces) and is awaited by the call that started it only; the
\* forced fetch leaves the key as the expired branch left it: without the
\* expired promise, and absent unless another call stored a promise; and a
\* discoverIssuer call that finds the key absent is a miss that starts its
\* own fetch.
C25_ForcedNotCached ==
  [][/\ \A f \in Fetches :
          kind'[f] = "forced" =>
            /\ entry'.val # f
            /\ \A g \in Fetches : cur'[g] # f
            /\ Cardinality({c \in Calls : call'[c].waitOn = f}) <= 1
            /\ (stage[f] \in {"meta", "jwks"} /\ stage'[f] # stage[f])
               => entry' = entry
     /\ \A c \in Calls :
          /\ (call[c].pc = "peeked" /\ call'[c].pc = "forced")
             => /\ entry'.val # call[c].prom
                /\ entry'.val \in {0, entry.val}
          /\ (call[c].pc = "forced" /\ call'[c].pc = "done")
             => entry' = entry
          /\ (call[c].pc \in {"idle", "done"} /\ call'[c].pc = "memo")
             => /\ kind'[call'[c].waitOn] # "forced"
                /\ entry.val = 0 => /\ call'[c].waitOn = nextId
                                    /\ nextId' = nextId + 1
                                    /\ kind'[nextId] = "memo"
                                    /\ entry'.val = nextId]_vars

\* a call returned the record of its forced fetch, and the next call missed
\* the cache and started a fetch of its own
C25_Witness ==
  \E c, d \in Calls :
    /\ call[c].pc = "done"
    /\ call[c].res = "forced"
    /\ call[d].pc = "memo"
    /\ ~call[d].hit
    /\ call[d].waitOn > call[c].rec
    /\ kind[call[d].waitOn] = "memo"
    /\ entry.val = call[d].waitOn

\* C26: the age and the recency of a cache entry are refreshed by the
\* memoize access at the start of a discoverIssuer call only: any other
\* step that keeps the entry's promise (the re-read after the await, the
\* expiry check, the timer and the completion of a rotation) leaves its
\* age as it is and its recency no better.
C26_OnlyMemoizeRefreshes ==
  [][(/\ entry.val # 0
      /\ entry'.val = entry.val
      /\ (entry'.at # entry.at \/ entry'.others < entry.others))
     => \E c \in Calls : /\ call[c].pc \in {"idle", "done"}
                          /\ call'[c].pc = "memo"
                          /\ call'[c].hit
                          /\ entry'.at = now
                          /\ entry'.others = 0]_vars

\* a call re-read the entry after its await, later than the entry's last
\* refreshing access
C26_Witness ==
  \E c \in Calls :
    /\ call[c].pc = "peeked"
    /\ call[c].prom # 0
    /\ entry.val = call[c].prom
    /\ entry.at < now

C28_ColdKeysStop ==
  [][\A g \in Fetches :
       (kind[g] = "none" /\ kind'[g] = "rot")
       => ~(rotNew.intact /\ rotNew.g = cur'[g])]_vars

\* a record stored by a rotation swap, with no call begun since, has
\* started the next rotation
C28_Witness ==
  \E g \in Fetches :
    /\ kind[g] = "rot"
    /\ stage[g] = "meta0"
    /\ kind[cur[g]] = "rot"
    /\ rotNew.intact
    /\ rotNew.g = cur[g]

\* C29 as stated: a call that returns a cached record returns the record of
\* the fetch its memoize settled with, so a record stored by a rotation swap
\* is returned only by calls that began after the swap (their memoize found
\* it); a swap made while the call is running does not change its result.
C29_SwapUnseen ==
  [][\A c \in Calls :
       (Returns(c) /\ call'[c].res = "cached") =>
          call'[c].rec = call[c].waitOn]_vars

\* a rotation has swapped the entry while a call that began before the swap
\* is still running
C29_Witness ==
  \E c \in Calls :
    /\ call[c].pc \in {"memo", "peeked"}
    /\ entry.val # 0 /\ kind[entry.val] = "rot"
    /\ call[c].waitOn # entry.val

\* the rules of _getUncachedIssuerConfig in their order: metadata format,
\* issuer HTTPS, jwks_uri HTTPS, issuer/URL binding, key-set format,
\* key-set validity; the number of the first one that the metadata m of
\* issuerConfigUrl u and the key set k violate, 0 when none is violated
FirstViolated(u, m, k) ==
  IF ~m.data THEN 1
  ELSE IF ~IsHttpsString(m.issuer) THEN 2
  ELSE IF ~IsHttpsString(m.jwks_uri) THEN 3
  ELSE IF ~BoundTo(u, m.issuer.url) THEN 4
  ELSE IF ~k.data THEN 5
  ELSE IF ~k.wellFormed THEN 6
  ELSE 0

\* the validation failure of each rule
RuleError ==
  <<ConfigNotJson, IssuerNotHttps, JwksUriNotHttps, IssuerMismatch,
    JwksNotJson, JwksMalformed>>

\* both GETs, when issued, were answered
Answered ==
  /\ bind.meta.net = "ok"
  /\ bind.gets = 2 => bind.keys.net = "ok"

\* C30 as stated: the first violated rule, in the order metadata format,
\* issuer HTTPS, jwks_uri HTTPS, binding, key-set format, key-set validity,
\* determines the error of a run; the GET of jwks_uri is issued only when
\* the four metadata rules passed; a run that returns a record issued
\* exactly two GETs and one failing at the metadata stage exactly one.
C30_RuleOrder ==
  /\ bind.gets >= 2 =>
       /\ bind.gets = 2
       /\ bind.meta.net = "ok"
       /\ FirstViolated(bind.url, bind.meta, bind.keys) \notin 1..4
  /\ bind.pc = "done" =>
       /\ bind.out = "record" => bind.gets = 2
       /\ bind.keys = NoResponse => bind.gets = 1
       /\ Answered =>
            LET v == FirstViolated(bind.url, bind.meta, bind.keys)
            IN /\ bind.out = IF v = 0 THEN "record" ELSE RuleError[v]
               /\ bind.gets = IF v \in 1..4 THEN 1 ELSE 2

\* a run whose metadata violates the issuer rule, the jwks_uri rule and the
\* binding rule at once has failed with the error of the issuer rule after
\* one GET
C30_Witness ==
  /\ bind.pc = "done"
  /\ bind.meta.net = "ok" /\ bind.meta.data
  /\ ~IsHttpsString(bind.meta.issuer)
  /\ ~IsHttpsString(bind.meta.jwks_uri)
  /\ WellKnownMatch(Pathname(bind.url)) = 0
  /\ bind.out = IssuerNotHttps
  /\ bind.gets = 1

\* what a request path is extended by after a further "/"
Extensions ==
  {<<>>, <<"1">>, <<"x">>, <<"1", "/", "b", "a", "r", "s", "/", "2">>,
   <<"b", "a", "r", "?", "a">>}

\* C31: hierarchical attenuation.  Whenever a verified request is authorized
\* for a target, the same scope claim, and the same single candidate of it,
\* authorizes the target extended by "/" + x for every x; and a candidate
\* action + ":" + P authorizes the relative path P itself.
C31_Attenuation ==
  /\ Authorized =>
       \A x \in Extensions :
         LET further == chk.tgt \o <<"/">> \o x
         IN /\ ScopeMatches(chk.scope, chk.act, chk.root, further)
            /\ \A d \in RefCandidates(chk.scope) :
                 ScopeMatches(d, chk.act, chk.root, chk.tgt)
                 => ScopeMatches(d, chk.act, chk.root, further)
  /\ (Matched /\ (RequiredActionScope(chk.act)
                    \o RelativePath(chk.tgt, chk.root))
                 \in RefCandidates(chk.scope))
     => Authorized

\* "read:/foos" authorizes "https://h/foos" under "https://h": the relative
\* path is the candidate's path itself
C31_Witness ==
  /\ Authorized
  /\ chk.act = Read
  /\ chk.root = RootH
  /\ chk.tgt = RootFoos
  /\ chk.scope = Read \o <<":", "/", "f", "o", "o", "s">>

\* C32: the cache never holds a promise of an invocation started before the
\* last _resetIssuerConfigCache, so no rotation fetch started before the
\* reset stores its promise in the new cache; and the timer of a record of
\* before the reset never starts a rotation after it, whatever the new
\* cache holds.
C32_NoRotationAcrossReset ==
  /\ [](entry.val \notin preReset)
  /\ [][\A f \in preReset :
          next'[f] = "rotating" => next[f] = "rotating"]_vars

\* a rotation fetch started before the reset has succeeded after it, while
\* the new cache holds an entry of the same URL
C32_Witness ==
  /\ rotNew.g \in preReset
  /\ stage[rotNew.g] = "ok"
  /\ entry.val # 0

\* target is root itself, or root followed by a path or query delimiter
InHierarchy(target, root) ==
  /\ StartsWith(target, root)
  /\ Boundary(Slice(target, Len(root)))

\* C33 as stated: every authorized request has a target inside the resource
\* hierarchy of rootInvocationTarget: the root itself or the root followed
\* by '/', '?', '&' or '#'; "https://h/foosbar" is never authorized under
\* root "https://h/foos".
C33_InsideRoot == Authorized => InHierarchy(chk.tgt, chk.root)

\* a verified request for "https://h/foosbar" under root "https://h/foos"
\* with scope "read:/" has been authorized
C33_Witness ==
  /\ Authorized
  /\ chk.act = Read
  /\ chk.root = RootFoos
  /\ chk.tgt = RootFoos \o <<"b", "a", "r">>
  /\ chk.scope = Read \o <<":", "/">>

====
